---- MODULE Spec2Model ----
(***************************************************************************)
(* Risk-quantification engine of risk_tool.py: DREAD scoring, severity     *)
(* classification, attack-tree evaluation, the Beta-Bernoulli updater and  *)
(* the static and dynamic Monte Carlo estimators.                          *)
(*                                                                         *)
(* Numbers: a Python float is modelled as an exact rational [n, d] in      *)
(* lowest terms with d > 0 (rounding error of binary floating point is     *)
(* not modelled).  A text string that the code transforms (the gate's      *)
(* logic, which is upper-cased) is a sequence of one-character strings.    *)
(* A dict is a function whose DOMAIN is its key set; Python's None is the  *)
(* value None below.                                                       *)
(***************************************************************************)
EXTENDS Integers, Sequences, FiniteSets

VARIABLES
    pc,               \* position of the caller in the operation being run
    threats,          \* the threat catalog: a sequence of threat dicts
    threat_index,     \* dict id -> threat, as built at risk_tool.py:230
    tree,             \* the attack tree handed to evaluate_attack_tree
    tree_probability, \* what evaluate_attack_tree returned
    tree_raised,      \* whether evaluate_attack_tree raised
    sev_score,        \* argument of determine_severity
    sev_result,       \* what determine_severity returned
    bt,               \* one BayesianThreat: [alpha, beta]
    prior,            \* the prior it was constructed with
    observed,         \* the outcomes passed to update so far
    iterations,       \* the iterations argument of the Monte Carlo functions
    trial,            \* trials run so far by the running Monte Carlo loop
    successes,        \* the successes counter of the running loop
    static_trials,    \* trials monte_carlo_compromise_probability ran
    mc_result,        \* <<analytic, monte_carlo>> it returned
    bayesian_threats, \* the list handed to monte_carlo_dynamic
    dynamic_mc        \* what monte_carlo_dynamic returned

vars == << pc, threats, threat_index, tree, tree_probability, tree_raised,
           sev_score, sev_result, bt, prior, observed, iterations, trial,
           successes, static_trials, mc_result, bayesian_threats, dynamic_mc >>

----------------------------------------------------------------------------
(* Bounds of the model *)

MaxNodes == 3        \* nodes (dicts and nulls) of an attack tree
MaxRatingStep == 6   \* DREAD sub-ratings range over (k-1) * 2.5, k in 0..MaxRatingStep
MaxScoreStep == 100  \* determine_severity's argument ranges over (k-8)/8, k in 0..MaxScoreStep
MaxPrior == 2        \* prior_alpha, prior_beta in 0..MaxPrior
MaxUpdates == 5      \* calls of BayesianThreat.update
MaxThreats == 2      \* threats of the catalog given to the Monte Carlo functions
MaxIterations == 3   \* the iterations argument is in 0..MaxIterations

----------------------------------------------------------------------------
(* Exact rationals standing for floats *)

RECURSIVE GCD(_, _)
GCD(a, b) == IF b = 0 THEN a ELSE GCD(b, a % b)

Abs(a) == IF a < 0 THEN 0 - a ELSE a

\* n/d in lowest terms, d > 0
Frac(n, d) ==
    LET s == IF d < 0 THEN 0 - 1 ELSE 1
        g == GCD(Abs(n), Abs(d))
    IN  [n |-> (s * n) \div g, d |-> (s * d) \div g]

Num(k) == [n |-> k, d |-> 1]
Zero == Num(0)
One == Num(1)

RAdd(x, y) == Frac(x.n * y.d + y.n * x.d, x.d * y.d)
RSub(x, y) == Frac(x.n * y.d - y.n * x.d, x.d * y.d)
RMul(x, y) == Frac(x.n * y.n, x.d * y.d)
RDiv(x, y) == Frac(x.n * y.d, x.d * y.n)
RLt(x, y) == x.n * y.d < y.n * x.d
RLe(x, y) == x.n * y.d <= y.n * x.d
RGe(x, y) == RLe(y, x)
RGt(x, y) == RLt(y, x)

\* A number of the input data is a Python int, [int |-> k], or a float, [n, d].
Int_(k) == [int |-> k]

\* float(v)
Float(v) == IF "int" \in DOMAIN v THEN Num(v.int) ELSE v

\* sum(values) over floats: the accumulator starts at 0
RECURSIVE SumLoop(_, _, _)
SumLoop(values, i, result) ==
    IF i > Len(values) THEN result
    ELSE SumLoop(values, i + 1, RAdd(result, values[i]))

Sum(values) == SumLoop(values, 1, Zero)

\* float('nan'): the IEEE not-a-number, the "undefined" marker of a float result
NaN == [n |-> 0, d |-> 0]

\* Python's None
None == [none |-> TRUE]

\* dict.get(key, default)
DictGet(dict, key, default) == IF key \in DOMAIN dict THEN dict[key] ELSE default

\* dict[key] = value
DictSet(dict, key, value) ==
    [k \in DOMAIN dict \cup { key } |-> IF k = key THEN value ELSE dict[k]]

\* truth value of an Optional[dict]: None and {} are false
Truthy(v) == v # None /\ DOMAIN v # {}

----------------------------------------------------------------------------
(* str.upper on the ASCII letters *)

LowerLetters == << "a", "b", "c", "d", "e", "f", "g", "h", "i", "j", "k", "l", "m",
                   "n", "o", "p", "q", "r", "s", "t", "u", "v", "w", "x", "y", "z" >>
UpperLetters == << "A", "B", "C", "D", "E", "F", "G", "H", "I", "J", "K", "L", "M",
                   "N", "O", "P", "Q", "R", "S", "T", "U", "V", "W", "X", "Y", "Z" >>

UpperChar(c) ==
    IF \E i \in DOMAIN LowerLetters : LowerLetters[i] = c
    THEN UpperLetters[CHOOSE i \in DOMAIN LowerLetters : LowerLetters[i] = c]
    ELSE c

Upper(s) == [i \in DOMAIN s |-> UpperChar(s[i])]

StrAND == << "A", "N", "D" >>
StrOR == << "O", "R" >>
StrAndLower == << "a", "n", "d" >>
StrXOR == << "X", "O", "R" >>

----------------------------------------------------------------------------
(* evaluate_attack_tree *)

\* the default of node.get("logic", "OR")
DefaultLogic == StrOR

\* a reference that does not resolve counted as a certain success
RefProbabilityDefaultOne(node, index) ==
    LET threat == DictGet(index, node.ref, None)
    IN  IF Truthy(threat) THEN Float(DictGet(threat, "prob", One)) ELSE One

\* lines 115-116: the referenced threat's prob, 0.0 when the reference does not
\* resolve or the threat has no prob
RefProbability(node, index) ==
    LET threat == DictGet(index, node.ref, None)
    IN  IF Truthy(threat) THEN Float(DictGet(threat, "prob", Zero)) ELSE Zero

\* the empty product, what the loops below give when the test of line 120 is absent
EmptyGateAsEmptyProduct == One

\* lines 120-121: the value of a gate with no evaluated children
EmptyGateValue == Zero

\* lines 123-126: result = 1.0; for p in probabilities: result *= p
RECURSIVE AndLoop(_, _, _)
AndLoop(probabilities, i, result) ==
    IF i > Len(probabilities) THEN result
    ELSE AndLoop(probabilities, i + 1, RMul(result, probabilities[i]))

\* the accumulator started at 0.0 instead of 1.0
AndFoldFromZero(probabilities) == AndLoop(probabilities, 1, Zero)

AndFold(probabilities) == AndLoop(probabilities, 1, One)

\* lines 128-131: result = 1.0; for p: result *= (1.0 - p); return 1.0 - result
RECURSIVE OrLoop(_, _, _)
OrLoop(probabilities, i, result) ==
    IF i > Len(probabilities) THEN result
    ELSE OrLoop(probabilities, i + 1, RMul(result, RSub(One, probabilities[i])))

\* OR taken as the sum of the children's probabilities
OrFoldAsSum(probabilities) == Sum(probabilities)

OrFold(probabilities) == RSub(One, OrLoop(probabilities, 1, One))

\* lines 122-131: the branch on logic
Combine(logic, probabilities) ==
    IF logic = StrAND THEN AndFold(probabilities) ELSE OrFold(probabilities)

\* the logic compared as written, without .upper()
GateLogicCaseSensitive(node) == DictGet(node, "logic", DefaultLogic)

\* line 117
GateLogic(node) == Upper(DictGet(node, "logic", DefaultLogic))

\* line 118
GateChildren(node) == DictGet(node, "children", << >>)

RECURSIVE evaluate_attack_tree(_, _)
evaluate_attack_tree(node, index) ==
    IF node = None THEN Zero
    ELSE IF "ref" \in DOMAIN node THEN RefProbability(node, index)
    ELSE LET logic == GateLogic(node)
             children == GateChildren(node)
             probabilities == [i \in DOMAIN children |->
                                  evaluate_attack_tree(children[i], index)]
         IN  IF probabilities = << >> THEN EmptyGateValue
             ELSE Combine(logic, probabilities)

----------------------------------------------------------------------------
(* Inputs of the attack-tree evaluation *)

\* prob values a catalog threat may carry; 3/2 is outside [0,1]
TreeProbs == { Int_(0), Frac(3, 10), Frac(1, 2), Int_(1), Frac(3, 2) }

\* catalogs: threat T1 with any prob or none, threat T2 with prob 0.2; no threat T9
TreeCatalogs ==
    { << t1, [id |-> "T2", prob |-> Frac(1, 5)] >> :
        t1 \in { [id |-> "T1", prob |-> p] : p \in TreeProbs } \cup { [id |-> "T1"] } }

RefIds == { "T1", "T2", "T9" }

LogicStrings == { StrAND, StrOR, StrAndLower, StrXOR }

\* a gate dict with the given children: logic absent or one of LogicStrings
GatesOver(children) ==
    { [children |-> children] }
        \cup { [logic |-> l, children |-> children] : l \in LogicStrings }

\* dicts with neither ref nor children
BareDicts == { [logic |-> l] : l \in LogicStrings } \cup { << >> }

RECURSIVE NodesOfSize(_), ChildListsOfSize(_)
\* the trees of exactly n nodes
NodesOfSize(n) ==
    IF n = 1
    THEN { None } \cup { [ref |-> r] : r \in RefIds } \cup BareDicts \cup GatesOver(<< >>)
    ELSE UNION { GatesOver(ch) : ch \in ChildListsOfSize(n - 1) }

\* the non-empty child lists of exactly m nodes in total
ChildListsOfSize(m) ==
    UNION { { << t >> \o rest : t \in NodesOfSize(k),
                                rest \in (IF k = m THEN { << >> } ELSE ChildListsOfSize(m - k)) } :
            k \in 1..m }

Trees == UNION { NodesOfSize(n) : n \in 1..MaxNodes }

\* the nodes of a tree, the root included
RECURSIVE SubNodes(_)
SubNodes(node) ==
    IF node = None \/ "children" \notin DOMAIN node THEN { node }
    ELSE { node } \cup UNION { SubNodes(node.children[i]) : i \in DOMAIN node.children }

----------------------------------------------------------------------------
(* Values of the variables an operation does not use *)

IdleCatalog == threats = << >>
IdleTree ==
    /\ threat_index = << >>
    /\ tree = None
    /\ tree_probability = NaN
    /\ tree_raised = FALSE
IdleSeverity == sev_score = Zero /\ sev_result = ""
IdleBayes == bt = [alpha |-> 1, beta |-> 1] /\ prior = [alpha |-> 1, beta |-> 1] /\ observed = << >>
IdleMonteCarlo ==
    /\ iterations = 0
    /\ trial = 0
    /\ successes = 0
    /\ static_trials = 0
    /\ mc_result = << NaN, NaN >>
    /\ bayesian_threats = << >>
    /\ dynamic_mc = NaN

treeVars == << threat_index, tree, tree_probability, tree_raised >>
severityVars == << sev_score, sev_result >>
bayesVars == << bt, prior, observed >>
monteCarloVars == << iterations, trial, successes, static_trials, mc_result,
                     bayesian_threats, dynamic_mc >>

----------------------------------------------------------------------------
(* main, the --tree branch: index the catalog, evaluate the tree *)

\* line 230: {t["id"]: t for t in threats}; a later threat replaces an earlier one
BuildThreatIndex(catalog) ==
    [ id \in { catalog[i].id : i \in DOMAIN catalog } |->
        LET last == CHOOSE i \in DOMAIN catalog :
                        /\ catalog[i].id = id
                        /\ \A j \in DOMAIN catalog : catalog[j].id = id => j <= i
        IN  catalog[last] ]

InitTree ==
    /\ pc = "tree_loaded"
    /\ threats \in TreeCatalogs
    /\ tree \in Trees
    /\ threat_index = << >>
    /\ tree_probability = NaN
    /\ tree_raised = FALSE
    /\ IdleSeverity /\ IdleBayes /\ IdleMonteCarlo

IndexThreats ==
    /\ pc = "tree_loaded"
    /\ threat_index' = BuildThreatIndex(threats)
    /\ pc' = "tree_indexed"
    /\ UNCHANGED << threats, tree, tree_probability, tree_raised,
                    severityVars, bayesVars, monteCarloVars >>

\* line 231; no statement of lines 108-131 raises on these inputs
EvaluateTree ==
    /\ pc = "tree_indexed"
    /\ tree_probability' = evaluate_attack_tree(tree, threat_index)
    /\ tree_raised' = FALSE
    /\ pc' = "tree_done"
    /\ UNCHANGED << threats, threat_index, tree, severityVars, bayesVars, monteCarloVars >>

NextTree == IndexThreats \/ EvaluateTree

SpecTree == InitTree /\ [][NextTree]_vars

----------------------------------------------------------------------------
(* Properties of evaluate_attack_tree *)

IsDict(node) == node # None
IsRefNode(node) == IsDict(node) /\ "ref" \in DOMAIN node
IsGateNode(node) == IsDict(node) /\ "ref" \notin DOMAIN node
HasChildren(node) == IsGateNode(node) /\ "children" \in DOMAIN node /\ node.children # << >>
HasLogic(node, l) == "logic" \in DOMAIN node /\ node.logic = l

\* what the evaluator gives for each child of a gate, in order
ChildValues(node) ==
    [i \in DOMAIN node.children |-> evaluate_attack_tree(node.children[i], threat_index)]

RECURSIVE ProductOf(_)
ProductOf(seq) == IF seq = << >> THEN One ELSE RMul(Head(seq), ProductOf(Tail(seq)))

Complements(seq) == [i \in DOMAIN seq |-> RSub(One, seq[i])]

AllSucceed(ps) == ProductOf(ps)
AnySucceeds(ps) == RSub(One, ProductOf(Complements(ps)))

InUnitInterval(x) == RLe(Zero, x) /\ RLe(x, One)

Ref(id) == [ref |-> id]
Gate(l, ch) == [logic |-> l, children |-> ch]
\* the number a JSON value stands for
ValueOf(v) == IF DOMAIN v = { "int" } THEN [n |-> v.int, d |-> 1] ELSE v

ProbOfT1Is(p) ==
    "T1" \in DOMAIN threat_index /\ ValueOf(DictGet(threat_index["T1"], "prob", NaN)) = p

\* C1: a gate with at least one child returns the product of its children's
\* evaluated probabilities when logic is AND and 1 - prod(1 - p_i) when logic is
\* OR; AND over 0.5 and 0.2 is 0.10, OR over the same is 0.60.
C1_GateCombination ==
    pc = "tree_done" =>
        /\ (HasChildren(tree) /\ HasLogic(tree, StrAND))
              => tree_probability = AllSucceed(ChildValues(tree))
        /\ (HasChildren(tree) /\ HasLogic(tree, StrOR))
              => tree_probability = AnySucceeds(ChildValues(tree))
        /\ (tree = Gate(StrAND, << Ref("T1"), Ref("T2") >>) /\ ProbOfT1Is(Frac(1, 2)))
              => tree_probability = Frac(1, 10)
        /\ (tree = Gate(StrOR, << Ref("T1"), Ref("T2") >>) /\ ProbOfT1Is(Frac(1, 2)))
              => tree_probability = Frac(6, 10)

C1_Witness ==
    /\ pc = "tree_done"
    /\ tree = Gate(StrAND, << Ref("T1"), Ref("T2") >>)
    /\ ProbOfT1Is(Frac(1, 2))
    /\ tree_probability = Frac(1, 10)

\* the probability a reference node stands for: its threat's prob, else 0.0
ReferenceValue(node) ==
    IF node.ref \in DOMAIN threat_index /\ "prob" \in DOMAIN threat_index[node.ref]
    THEN ValueOf(threat_index[node.ref].prob)
    ELSE Zero

IsEmptyGate(node) == IsGateNode(node) /\ ~ HasChildren(node)

\* C3: a gate with zero children evaluates to 0.0 for AND and for OR, also when
\* it is a child of another gate (an AND gate over empty gates is 0.0, not 1.0).
C3_EmptyGateIsZero ==
    pc = "tree_done" =>
        /\ IsEmptyGate(tree) => tree_probability = Zero
        /\ \A n \in SubNodes(tree) :
              IsEmptyGate(n) => evaluate_attack_tree(n, threat_index) = Zero
        /\ (HasChildren(tree) /\ (HasLogic(tree, StrAND) \/ HasLogic(tree, StrOR))
                /\ \A i \in DOMAIN tree.children : IsEmptyGate(tree.children[i]))
              => tree_probability = Zero

C3_Witness ==
    /\ pc = "tree_done"
    /\ tree = Gate(StrAND, << Gate(StrAND, << >>), Gate(StrOR, << >>) >>)
    /\ tree_probability = Zero

IndexInUnitInterval ==
    \A id \in DOMAIN threat_index :
        "prob" \in DOMAIN threat_index[id] => InUnitInterval(ValueOf(threat_index[id].prob))

\* C4: over a threat index whose prob values all lie in [0,1], the evaluation of
\* every tree, and of every subtree of it, lies in [0,1].
C4_ResultInUnitInterval ==
    (pc = "tree_done" /\ IndexInUnitInterval) =>
        /\ InUnitInterval(tree_probability)
        /\ \A n \in SubNodes(tree) : InUnitInterval(evaluate_attack_tree(n, threat_index))

C4_Witness ==
    /\ pc = "tree_done"
    /\ IndexInUnitInterval
    /\ tree = Gate(StrOR, << Gate(StrAND, << Ref("T1") >>) >>)
    /\ ProbOfT1Is(One)
    /\ tree_probability = One

\* C5 as stated: a gate whose logic is absent, or any string other than AND or
\* OR, is evaluated with OR semantics.
C5_AsStated ==
    (pc = "tree_done" /\ HasChildren(tree)
        /\ ("logic" \notin DOMAIN tree \/ tree.logic \notin { StrAND, StrOR }))
        => tree_probability = AnySucceeds(ChildValues(tree))

\* the spellings of AND in any letter case
SpellingsOfAND ==
    { << a, n, d >> : a \in { "a", "A" }, n \in { "n", "N" }, d \in { "d", "D" } }

\* C5, amended: a gate whose logic is absent, or is a string that is not AND in
\* any letter case, is evaluated with OR semantics; a gate whose logic spells
\* AND in any letter case is evaluated with AND semantics.
C5_UnrecognizedLogicIsOr ==
    (pc = "tree_done" /\ HasChildren(tree)) =>
        /\ ("logic" \notin DOMAIN tree \/ tree.logic \notin SpellingsOfAND)
              => tree_probability = AnySucceeds(ChildValues(tree))
        /\ ("logic" \in DOMAIN tree /\ tree.logic \in SpellingsOfAND)
              => tree_probability = AllSucceed(ChildValues(tree))

C5_Witness ==
    /\ pc = "tree_done"
    /\ tree = Gate(StrXOR, << Ref("T1"), Ref("T2") >>)
    /\ ProbOfT1Is(Frac(1, 2))
    /\ tree_probability = Frac(6, 10)

\* a dict that has neither a ref nor a children field
IsMalformedNode(node) ==
    IsDict(node) /\ "ref" \notin DOMAIN node /\ "children" \notin DOMAIN node

\* C10: when the evaluation meets a node with neither ref nor children it fails
\* with an error and returns no probability.
C10_MalformedNodeFailsFast ==
    (pc = "tree_done" /\ \E n \in SubNodes(tree) : IsMalformedNode(n))
        => (tree_raised /\ tree_probability = NaN)

----------------------------------------------------------------------------
(* calculate_dread_score, determine_severity, enrich_threats *)

DreadKeys == << "damage", "reproducibility", "exploitability", "affected_users",
                "discoverability" >>

\* every value of the mapping summed, whatever its key, over a fixed 5
RECURSIVE SumOfDict(_)
SumOfDict(dict) ==
    IF DOMAIN dict = {} THEN Zero
    ELSE LET k == CHOOSE k \in DOMAIN dict : TRUE
         IN  RAdd(Float(dict[k]), SumOfDict([j \in DOMAIN dict \ { k } |-> dict[j]]))

DreadScoreOfAllValues(dread) == RDiv(SumOfDict(dread), Num(Len(DreadKeys)))

\* lines 27-29
calculate_dread_score(dread) ==
    LET keys == DreadKeys
        values == [i \in DOMAIN keys |-> Float(DictGet(dread, keys[i], Int_(0)))]
    IN  IF values # << >> THEN RDiv(Sum(values), Num(Len(values))) ELSE Zero

CriticalThreshold == 8
HighThreshold == Frac(13, 2)
MediumThreshold == 5

\* the comparisons made strict
SeverityWithStrictBounds(score) ==
    IF RGt(score, Num(CriticalThreshold)) THEN "Critical"
    ELSE IF RGt(score, HighThreshold) THEN "High"
    ELSE IF RGt(score, Num(MediumThreshold)) THEN "Medium"
    ELSE IF RGt(score, Zero) THEN "Low"
    ELSE "None"

\* lines 35-43
determine_severity(score) ==
    IF RGe(score, Num(CriticalThreshold)) THEN "Critical"
    ELSE IF RGe(score, HighThreshold) THEN "High"
    ELSE IF RGe(score, Num(MediumThreshold)) THEN "Medium"
    ELSE IF RGt(score, Zero) THEN "Low"
    ELSE "None"

\* lines 50-52, the body of the loop
EnrichOne(threat) ==
    LET dread == DictGet(threat, "dread", << >>)
        scored == DictSet(threat, "score", calculate_dread_score(dread))
    IN  DictSet(scored, "severity", determine_severity(scored.score))

\* lines 49-53
enrich_threats(catalog) == [i \in DOMAIN catalog |-> EnrichOne(catalog[i])]

\* sub-ratings -2.5, 0, 2.5, ..., whole values as ints
DreadRatings ==
    { IF k % 2 = 1 THEN Int_(((k - 1) * 5) \div 2) ELSE Frac((k - 1) * 5, 2) :
        k \in 0..MaxRatingStep }

\* the key sets of a dread mapping: any of the five names, and a sixth key
DreadKeySets == SUBSET ({ DreadKeys[i] : i \in DOMAIN DreadKeys } \cup { "likelihood" })

DreadMappings ==
    UNION { { d \in [ks -> DreadRatings] : "likelihood" \in ks => d["likelihood"] = Int_(10) } :
            ks \in DreadKeySets }

\* catalogs of one threat, with a dread mapping or with none
DreadCatalogs ==
    { << [id |-> "T1", dread |-> d] >> : d \in DreadMappings } \cup { << [id |-> "T1"] >> }

InitDread ==
    /\ pc = "catalog_loaded"
    /\ threats \in DreadCatalogs
    /\ IdleTree /\ IdleSeverity /\ IdleBayes /\ IdleMonteCarlo

\* line 198
EnrichThreats ==
    /\ pc = "catalog_loaded"
    /\ threats' = enrich_threats(threats)
    /\ pc' = "catalog_enriched"
    /\ UNCHANGED << treeVars, severityVars, bayesVars, monteCarloVars >>

NextDread == EnrichThreats

SpecDread == InitDread /\ [][NextDread]_vars

\* scores -1, -0.875, ..., in steps of 1/8
ScoreGrid == { Frac(k - 8, 8) : k \in 0..MaxScoreStep }

InitSeverity ==
    /\ pc = "severity_called"
    /\ sev_score \in ScoreGrid
    /\ sev_result = ""
    /\ IdleCatalog /\ IdleTree /\ IdleBayes /\ IdleMonteCarlo

DetermineSeverity ==
    /\ pc = "severity_called"
    /\ sev_result' = determine_severity(sev_score)
    /\ pc' = "severity_returned"
    /\ UNCHANGED << threats, sev_score, treeVars, bayesVars, monteCarloVars >>

NextSeverity == DetermineSeverity

SpecSeverity == InitSeverity /\ [][NextSeverity]_vars

----------------------------------------------------------------------------
(* Properties of the DREAD scorer *)

SeverityRank(sev) ==
    CASE sev = "None" -> 0
      [] sev = "Low" -> 1
      [] sev = "Medium" -> 2
      [] sev = "High" -> 3
      [] sev = "Critical" -> 4

\* the tier the threshold table gives a score
TierOf(score) ==
    IF RLe(Num(8), score) THEN "Critical"
    ELSE IF RLe(Frac(65, 10), score) /\ RLt(score, Num(8)) THEN "High"
    ELSE IF RLe(Num(5), score) /\ RLt(score, Frac(65, 10)) THEN "Medium"
    ELSE IF RLt(Zero, score) /\ RLt(score, Num(5)) THEN "Low"
    ELSE "None"

\* C6: determine_severity gives Critical for score >= 8, High for 6.5 <= score < 8,
\* Medium for 5 <= score < 6.5, Low for 0 < score < 5, None otherwise; it is
\* monotonic non-decreasing in score, and 8, 6.5 and 5 belong to the higher tier.
C6_SeverityTable ==
    pc = "severity_returned" =>
        /\ sev_result = TierOf(sev_score)
        /\ sev_score = Num(8) => sev_result = "Critical"
        /\ sev_score = Frac(13, 2) => sev_result = "High"
        /\ sev_score = Num(5) => sev_result = "Medium"
        /\ \A lower \in ScoreGrid :
              RLe(lower, sev_score)
                  => SeverityRank(determine_severity(lower)) <= SeverityRank(sev_result)

C6_Witness ==
    /\ pc = "severity_returned"
    /\ sev_score = Frac(13, 2)
    /\ sev_result = "High"

\* a named sub-rating of a mapping, 0 when the key is missing
Rating(dread, key) == IF key \in DOMAIN dread THEN ValueOf(dread[key]) ELSE Zero

MeanOfFive(dread) ==
    LET total == RAdd(Rating(dread, "damage"),
                 RAdd(Rating(dread, "reproducibility"),
                 RAdd(Rating(dread, "exploitability"),
                 RAdd(Rating(dread, "affected_users"), Rating(dread, "discoverability")))))
    IN  Frac(total.n, total.d * 5)

RatingsInRange(dread) ==
    \A k \in DOMAIN dread : RLe(Zero, ValueOf(dread[k])) /\ RLe(ValueOf(dread[k]), Num(10))

DreadOf(threat) == IF "dread" \in DOMAIN threat THEN threat.dread ELSE << >>

\* C7: the score is the sum of the five named sub-ratings, a missing one counted
\* as 0, divided by 5; an empty mapping gives 0.0; the score lies in [0,10] when
\* every present sub-rating lies in [0,10].
C7_DreadScore ==
    pc = "catalog_enriched" =>
        \A i \in DOMAIN threats :
            LET dread == DreadOf(threats[i])
            IN  /\ "score" \in DOMAIN threats[i]
                /\ threats[i].score = MeanOfFive(dread)
                /\ DOMAIN dread = {} => threats[i].score = Zero
                /\ RatingsInRange(dread)
                      => RLe(Zero, threats[i].score) /\ RLe(threats[i].score, Num(10))

C7_Witness ==
    /\ pc = "catalog_enriched"
    /\ DreadOf(threats[1]) = [damage |-> Int_(10), exploitability |-> Frac(5, 2),
                              likelihood |-> Int_(10)]
    /\ threats[1].score = Frac(5, 2)

----------------------------------------------------------------------------
(* BayesianThreat *)

\* lines 159-161
BayesianThreat(prior_alpha, prior_beta) == [alpha |-> prior_alpha, beta |-> prior_beta]

\* the outcome ignored: every observation counted as a success
UpdateAlwaysAlpha(self, observed_success) == [self EXCEPT !.alpha = @ + 1]

\* lines 163-167
update(self, observed_success) ==
    IF observed_success THEN [self EXCEPT !.alpha = @ + 1]
    ELSE [self EXCEPT !.beta = @ + 1]

\* lines 169-171
mean(self) == RDiv(Num(self.alpha), Num(self.alpha + self.beta))

Priors == [alpha : 0..MaxPrior, beta : 0..MaxPrior]

InitBayes ==
    /\ pc = "bayes_constructed"
    /\ prior \in Priors
    /\ bt = BayesianThreat(prior.alpha, prior.beta)
    /\ observed = << >>
    /\ IdleCatalog /\ IdleTree /\ IdleSeverity /\ IdleMonteCarlo

Update(observed_success) ==
    /\ Len(observed) < MaxUpdates
    /\ bt' = update(bt, observed_success)
    /\ observed' = Append(observed, observed_success)
    /\ UNCHANGED << pc, threats, prior, treeVars, severityVars, monteCarloVars >>

UpdateSuccess == Update(TRUE)
UpdateFailure == Update(FALSE)

NextBayes == UpdateSuccess \/ UpdateFailure

SpecBayes == InitBayes /\ [][NextBayes]_vars

----------------------------------------------------------------------------
(* Properties of BayesianThreat *)

CountOf(outcome) == Cardinality({ i \in DOMAIN observed : observed[i] = outcome })

PositivePrior == prior.alpha > 0 /\ prior.beta > 0

C8_State ==
    PositivePrior =>
        /\ bt.alpha = prior.alpha + CountOf(TRUE)
        /\ bt.beta = prior.beta + CountOf(FALSE)
        /\ bt.alpha > 0 /\ bt.beta > 0
        /\ RMul(mean(bt), Num(prior.alpha + prior.beta + Len(observed)))
              = Num(prior.alpha + CountOf(TRUE))
        /\ (prior = [alpha |-> 1, beta |-> 1] /\ CountOf(TRUE) = 2 /\ CountOf(FALSE) = 3)
              => mean(bt) = [n |-> 3, d |-> 7]

C8_Step ==
    PositivePrior =>
        \/ bt'.alpha = bt.alpha + 1 /\ bt'.beta = bt.beta /\ observed' = Append(observed, TRUE)
        \/ bt'.beta = bt.beta + 1 /\ bt'.alpha = bt.alpha /\ observed' = Append(observed, FALSE)

\* C8: from a prior alpha > 0, beta > 0, every update increments exactly one of
\* alpha, beta by 1 (alpha on a success, beta on a failure) and leaves the other
\* unchanged; after s successes and f failures in any order alpha = prior_alpha + s
\* and beta = prior_beta + f, both positive, and mean = alpha / (alpha + beta),
\* which is 3/7 after 2 successes and 3 failures from the prior (1,1).
C8_BetaBernoulliCounters == [] C8_State /\ [][C8_Step]_vars

C8_Witness ==
    /\ prior = [alpha |-> 1, beta |-> 1]
    /\ observed = << FALSE, TRUE, FALSE, TRUE, FALSE >>
    /\ bt = [alpha |-> 3, beta |-> 4]
    /\ mean(bt) = [n |-> 3, d |-> 7]

----------------------------------------------------------------------------
(* monte_carlo_compromise_probability and monte_carlo_dynamic *)

\* line 137: the prob of every threat that has one, as floats, in order
RECURSIVE Probabilities(_)
Probabilities(catalog) ==
    IF catalog = << >> THEN << >>
    ELSE LET t == Head(catalog)
         IN  IF DictGet(t, "prob", None) # None
             THEN << Float(DictGet(t, "prob", Zero)) >> \o Probabilities(Tail(catalog))
             ELSE Probabilities(Tail(catalog))

\* lines 146-153
RECURSIVE ProdLoop(_, _, _)
ProdLoop(values, i, result) ==
    IF i > Len(values) THEN result
    ELSE ProdLoop(values, i + 1, RMul(result, values[i]))

prod(values) == ProdLoop(values, 1, One)

\* line 138
Analytic(probabilities) ==
    RSub(One, prod([i \in DOMAIN probabilities |-> RSub(One, probabilities[i])]))

\* values random.random() may return: it draws from [0, 1)
UniformDraws == { Zero, Frac(1, 2), Frac(3, 4) }

\* values a draw from Beta(alpha, beta) may take when alpha > 0 and beta > 0
BetaDraws == { Frac(1, 4), Frac(3, 4) }

\* lines 141 and 183: any(random.random() < p for p in probs), for the draws made.
\* any() stops at the first success; the draws it then skips do not change it.
AnyActivates(draws, probs) == \E i \in DOMAIN probs : RLt(draws[i], probs[i])

\* line 143
StaticEstimate(count, n, analytic) ==
    IF n > 0 THEN RDiv(Num(count), Num(n)) ELSE analytic

\* line 185
DynamicEstimate(count, n) == IF n > 0 THEN RDiv(Num(count), Num(n)) ELSE Zero

\* lines 214-220: a (1,1) prior per threat, then 2 successes and 3 failures each
ObservedBayesianThreats(catalog) ==
    [i \in DOMAIN catalog |->
        update(update(update(update(update(BayesianThreat(1, 1),
            TRUE), TRUE), FALSE), FALSE), FALSE)]

\* the prob field of a catalog threat: absent, null or a number
ProbFields == { None, Int_(0), Frac(1, 2), Int_(1) }

ThreatsWithId(id) == { [id |-> id] } \cup { [id |-> id, prob |-> p] : p \in ProbFields }

ThreatId(i) == << "T", i >>

MonteCarloCatalogs ==
    UNION { { c \in [1..n -> UNION { ThreatsWithId(ThreatId(i)) : i \in 1..n }] :
                \A i \in 1..n : c[i].id = ThreatId(i) } : n \in 0..MaxThreats }

InitMonteCarlo ==
    /\ pc = "static_called"
    /\ threats \in MonteCarloCatalogs
    /\ iterations \in 0..MaxIterations
    /\ trial = 0
    /\ successes = 0
    /\ static_trials = 0
    /\ mc_result = << NaN, NaN >>
    /\ bayesian_threats = << >>
    /\ dynamic_mc = NaN
    /\ IdleTree /\ IdleSeverity /\ IdleBayes

unchangedByMonteCarlo == << threats, iterations, treeVars, severityVars, bayesVars >>

\* lines 137-139
StaticBegin ==
    /\ pc = "static_called"
    /\ successes' = 0
    /\ trial' = 0
    /\ pc' = "static_loop"
    /\ UNCHANGED << static_trials, mc_result, bayesian_threats, dynamic_mc,
                    unchangedByMonteCarlo >>

\* lines 140-142, one pass of the loop
StaticTrial ==
    /\ pc = "static_loop"
    /\ trial < iterations
    /\ LET probabilities == Probabilities(threats)
       IN  \E draws \in [DOMAIN probabilities -> UniformDraws] :
               successes' = IF AnyActivates(draws, probabilities)
                            THEN successes + 1 ELSE successes
    /\ trial' = trial + 1
    /\ UNCHANGED << pc, static_trials, mc_result, bayesian_threats, dynamic_mc,
                    unchangedByMonteCarlo >>

\* lines 143-144
StaticReturn ==
    /\ pc = "static_loop"
    /\ trial >= iterations
    /\ LET analytic == Analytic(Probabilities(threats))
       IN  mc_result' = << analytic, StaticEstimate(successes, iterations, analytic) >>
    /\ static_trials' = trial
    /\ pc' = "static_returned"
    /\ UNCHANGED << trial, successes, bayesian_threats, dynamic_mc, unchangedByMonteCarlo >>

\* lines 214-220, then the call of line 221 and the statement of line 180
DynamicBegin ==
    /\ pc = "static_returned"
    /\ bayesian_threats' = ObservedBayesianThreats(threats)
    /\ successes' = 0
    /\ trial' = 0
    /\ pc' = "dynamic_loop"
    /\ UNCHANGED << static_trials, mc_result, dynamic_mc, unchangedByMonteCarlo >>

\* lines 181-184, one pass of the loop
DynamicTrial ==
    /\ pc = "dynamic_loop"
    /\ trial < iterations
    /\ \E probs \in [DOMAIN bayesian_threats -> BetaDraws] :
           \E draws \in [DOMAIN probs -> UniformDraws] :
               successes' = IF AnyActivates(draws, probs) THEN successes + 1 ELSE successes
    /\ trial' = trial + 1
    /\ UNCHANGED << pc, static_trials, mc_result, bayesian_threats, dynamic_mc,
                    unchangedByMonteCarlo >>

\* line 185
DynamicReturn ==
    /\ pc = "dynamic_loop"
    /\ trial >= iterations
    /\ dynamic_mc' = DynamicEstimate(successes, iterations)
    /\ pc' = "dynamic_returned"
    /\ UNCHANGED << trial, successes, static_trials, mc_result, bayesian_threats,
                    unchangedByMonteCarlo >>

NextMonteCarlo ==
    \/ StaticBegin
    \/ StaticTrial
    \/ StaticReturn
    \/ DynamicBegin
    \/ DynamicTrial
    \/ DynamicReturn

SpecMonteCarlo == InitMonteCarlo /\ [][NextMonteCarlo]_vars

----------------------------------------------------------------------------
(* Properties of the Monte Carlo estimators *)

\* C9: with iterations = 0 the static function runs no trials and returns an
\* invalid/undefined marker as its Monte Carlo value, and the dynamic function
\* runs no trials, does not divide by zero, and returns what the static one does.
C9_ZeroIterationsUndefined ==
    (pc = "dynamic_returned" /\ iterations = 0) =>
        /\ static_trials = 0
        /\ mc_result[2] = NaN
        /\ trial = 0
        /\ dynamic_mc = mc_result[2]

====
